---- MODULE Spec2Model ----
(***************************************************************************)
(* Model of the two index structures of qwt:                               *)
(*   - DArray (src/src/darray/mod.rs): select1/select0 over a bit vector,  *)
(*   - RSSupportPlain (src/src/rs_qvector/rs_support_plain/mod.rs):        *)
(*     block-level rank/select over a quaternary vector.                   *)
(* Vec indices are 0-based in the source; a Vec v is a sequence here and   *)
(* v[k] of the source is At(v, k).  The sizes of the source (1024, 32,     *)
(* 2^16, 64-bit words, 256/512, 8, 2^13, 12/44-bit fields) are kept as     *)
(* named definitions with proportionally smaller values so that every      *)
(* bit vector / quaternary vector up to the bound can be enumerated.       *)
(***************************************************************************)
EXTENDS Integers, Sequences, FiniteSets, TLC

VARIABLES
    pc,               \* "start" | "built" | "queried"
    bv,               \* the BitVector handed to DArray::new (0/1 sequence)
    pad,              \* value of the bits of the last word beyond bv.len()
    SELECT0_SUPPORT,  \* const generic of DArray
    da,               \* the DArray: [ones_inventories, zeroes_inventories]
    op,               \* last query: [name, symbol, i]
    ret,              \* its outcome
    qv,               \* the QVector handed to RSSupportPlain::new
    B_SIZE,           \* const generic of RSSupportPlain
    rs                \* the RSSupportPlain
vars == <<pc, bv, pad, SELECT0_SUPPORT, da, op, ret, qv, B_SIZE, rs>>

\* ---------------------------------------------------------------- bounds
MaxLen == 12          \* longest bit vector
MaxQLen == 12         \* longest quaternary vector over QSymbols
MaxShortQLen == 5     \* longest quaternary vector over all four symbols

\* ------------------------------------------------------------- constants
BLOCK_SIZE == 4              \* darray: P-bits per block
SUBBLOCK_SIZE == 2           \* darray: P-bits per subblock
MAX_IN_BLOCK_DISTACE == 5    \* darray: span from which a block is sparse
WORD_BITS == 4               \* bits per BitVector word
BLOCKS_IN_SUPERBLOCK == 4    \* rs_support_plain: blocks per superblock
SELECT_NUM_SAMPLES == 2      \* rs_support_plain: occurrences per sample
BLOCK_BITS == 3              \* width of a block field of a counter word
SUPERBLOCK_BITS == 5         \* width of the superblock field
MAX_LEN_BITS == 4            \* new() asserts qv.len() < 2^MAX_LEN_BITS

U16_MAX == MAX_IN_BLOCK_DISTACE - 1   \* largest value of a subblock entry
WORD_MAX == 2^WORD_BITS - 1           \* std::u64::MAX

None == [kind |-> "None"]

\* ----------------------------------------------------------- primitives
At(v, k) == v[k + 1]
Last(v) == v[Len(v)]

RECURSIVE BitAnd(_, _)
BitAnd(a, b) ==
    IF a = 0 \/ b = 0 THEN 0
    ELSE (a % 2) * (b % 2) + 2 * BitAnd(a \div 2, b \div 2)

RECURSIVE BitOr(_, _)
BitOr(a, b) ==
    IF a = 0 THEN b
    ELSE IF b = 0 THEN a
    ELSE (IF a % 2 = 1 \/ b % 2 = 1 THEN 1 ELSE 0) + 2 * BitOr(a \div 2, b \div 2)

Shl(w, k) == (w * 2^k) % (WORD_MAX + 1)      \* w << k on a word
Not(w) == WORD_MAX - w                        \* !w on a word

RECURSIVE popcnt(_)
popcnt(w) == IF w = 0 THEN 0 ELSE (w % 2) + popcnt(w \div 2)

\* position of the (k+1)-th set bit of w; the caller ensures k < popcnt(w)
RECURSIVE select_in_word(_, _)
select_in_word(w, k) ==
    IF w % 2 = 1
    THEN IF k = 0 THEN 0 ELSE 1 + select_in_word(w \div 2, k - 1)
    ELSE 1 + select_in_word(w \div 2, k)

\* --------------------------------------------------- BitVector interface
n_words(b) == (Len(b) + WORD_BITS - 1) \div WORD_BITS

bit_at(b, pd, p) == IF p < Len(b) THEN b[p + 1] ELSE pd

RECURSIVE word_from(_, _, _, _)
word_from(b, pd, p, k) ==
    IF k = WORD_BITS THEN 0
    ELSE bit_at(b, pd, p + k) * 2^k + word_from(b, pd, p, k + 1)

get_word(b, pd, word_idx) == word_from(b, pd, word_idx * WORD_BITS, 0)

positions(b, bit) ==
    SelectSeq([k \in 1..Len(b) |-> k - 1], LAMBDA p : b[p + 1] = bit)
ones(b) == positions(b, 1)
zeros(b) == positions(b, 0)

\* ------------------------------------------------------------ Inventories
Inventories_default ==
    [n_sets |-> 0, block_inventory |-> <<>>,
     subblock_inventory |-> <<>>, overflow_positions |-> <<>>]

\* indices 0, SUBBLOCK_SIZE, 2*SUBBLOCK_SIZE, ... below n
step_by(n) == [j \in 1..((n + SUBBLOCK_SIZE - 1) \div SUBBLOCK_SIZE)
                  |-> (j - 1) * SUBBLOCK_SIZE]

\* the dense branch of flush_block
flush_dense(self, curr_positions) ==
    LET v == Head(curr_positions)
        idx == step_by(Len(curr_positions))
    IN [self EXCEPT
          !.block_inventory = Append(@, v),
          !.subblock_inventory =
              @ \o [j \in 1..Len(idx) |->
                      (At(curr_positions, idx[j]) - v) % (U16_MAX + 1)]]

\* mutation: the overflow index is stored without the -1 that keeps it negative
flush_sparse_no_offset(self, curr_positions) ==
    LET v == -Len(self.overflow_positions)
    IN [self EXCEPT
          !.block_inventory = Append(@, v),
          !.overflow_positions = @ \o curr_positions,
          !.subblock_inventory =
              @ \o [j \in 1..Len(curr_positions) |-> U16_MAX]]

\* the sparse branch of flush_block
flush_sparse(self, curr_positions) ==
    LET v == (-Len(self.overflow_positions)) - 1
    IN [self EXCEPT
          !.block_inventory = Append(@, v),
          !.overflow_positions = @ \o curr_positions,
          !.subblock_inventory =
              @ \o [j \in 1..Len(curr_positions) |-> U16_MAX]]

flush_block(self, curr_positions) ==
    IF curr_positions = <<>> THEN self
    ELSE IF Last(curr_positions) - Head(curr_positions) < MAX_IN_BLOCK_DISTACE
    THEN flush_dense(self, curr_positions)
    ELSE flush_sparse(self, curr_positions)

RECURSIVE Inventories_loop(_, _, _)
Inventories_loop(me, curr_block_positions, rest) ==
    IF rest = <<>> THEN [me |-> me, curr |-> curr_block_positions]
    ELSE LET pushed == Append(curr_block_positions, Head(rest))
             full == Len(pushed) = BLOCK_SIZE
             me1 == IF full THEN flush_block(me, pushed) ELSE me
         IN Inventories_loop([me1 EXCEPT !.n_sets = @ + 1],
                             IF full THEN <<>> ELSE pushed, Tail(rest))

Inventories_new(b, BIT) ==
    LET r == Inventories_loop(Inventories_default, <<>>,
                              IF ~BIT THEN zeros(b) ELSE ones(b))
    IN flush_block(r.me, r.curr)

\* ----------------------------------------------------------------- DArray
\* mutation: the zeros inventory is never built
DArray_new_without_zeros(b, s0) ==
    [ones_inventories |-> Inventories_new(b, TRUE),
     zeroes_inventories |-> None]

DArray_new(b, s0) ==
    [ones_inventories |-> Inventories_new(b, TRUE),
     zeroes_inventories |->
        IF s0 THEN [kind |-> "Some", inv |-> Inventories_new(b, FALSE)]
        ELSE None]

\* outcome of a query: Some(val), None, or a panic with its cause; reads is
\* the set of <<vector, index>> accesses the call made
RetSome(p, reads) == [kind |-> "Some", val |-> p, why |-> "", reads |-> reads]
RetNone(reads) == [kind |-> "None", val |-> 0, why |-> "", reads |-> reads]
RetPanic(why, reads) == [kind |-> "Panic", val |-> 0, why |-> why, reads |-> reads]
NoRet == [kind |-> "", val |-> 0, why |-> "", reads |-> {}]

fetch(b, pd, BIT, word_idx) ==
    IF ~BIT THEN Not(get_word(b, pd, word_idx)) ELSE get_word(b, pd, word_idx)

RECURSIVE select_scan(_, _, _, _, _, _, _)
select_scan(b, pd, BIT, word_idx, word, reminder, reads) ==
    IF reminder < popcnt(word)
    THEN RetSome(word_idx * WORD_BITS + select_in_word(word, reminder), reads)
    ELSE LET rd == reads \cup {<<"get_word", word_idx + 1>>}
         IN IF word_idx + 1 >= n_words(b)
            THEN RetPanic("index out of bounds", rd)
            ELSE select_scan(b, pd, BIT, word_idx + 1,
                             fetch(b, pd, BIT, word_idx + 1),
                             reminder - popcnt(word), rd)

select_found(b, pd, BIT, i, inventories) ==
    LET block == i \div BLOCK_SIZE
        r1 == {<<"block_inventory", block>>}
    IN
    IF block >= Len(inventories.block_inventory)
    THEN RetPanic("index out of bounds", r1)
    ELSE
    LET block_pos == At(inventories.block_inventory, block) IN
    IF block_pos < 0
    THEN LET overflow_pos == -block_pos - 1
             idx == overflow_pos + BitAnd(i, BLOCK_SIZE - 1)
             r2 == r1 \cup {<<"overflow_positions", idx>>}
         IN IF idx >= Len(inventories.overflow_positions)
            THEN RetPanic("index out of bounds", r2)
            ELSE RetSome(At(inventories.overflow_positions, idx), r2)
    ELSE
    LET subblock == i \div SUBBLOCK_SIZE
        r3 == r1 \cup {<<"subblock_inventory", subblock>>}
    IN
    IF subblock >= Len(inventories.subblock_inventory)
    THEN RetPanic("index out of bounds", r3)
    ELSE
    LET start_pos == block_pos + At(inventories.subblock_inventory, subblock)
        reminder == BitAnd(i, SUBBLOCK_SIZE - 1)
    IN
    IF reminder = 0 THEN RetSome(start_pos, r3)
    ELSE
    LET word_idx == start_pos \div WORD_BITS
        word_shift == start_pos % WORD_BITS
        r4 == r3 \cup {<<"get_word", word_idx>>}
    IN
    IF word_idx >= n_words(b)
    THEN RetPanic("index out of bounds", r4)
    ELSE select_scan(b, pd, BIT, word_idx,
                     BitAnd(fetch(b, pd, BIT, word_idx), Shl(WORD_MAX, word_shift)),
                     reminder, r4)

\* mutation: the bound check lets i = n_sets through
select_late_check(b, pd, BIT, i, inventories) ==
    IF i > inventories.n_sets THEN RetNone({})
    ELSE select_found(b, pd, BIT, i, inventories)

select(b, pd, BIT, i, inventories) ==
    IF i >= inventories.n_sets THEN RetNone({})
    ELSE select_found(b, pd, BIT, i, inventories)

unwrap(r) ==
    IF r.kind = "None"
    THEN RetPanic("unwrap on None", r.reads)
    ELSE r

select1(b, pd, s0, self, i) == select(b, pd, TRUE, i, self.ones_inventories)

select0(b, pd, s0, self, i) ==
    IF ~s0 THEN RetPanic("assertion failed: SELECT0_SUPPORT", {})
    ELSE IF self.zeroes_inventories = None
    THEN RetPanic("unwrap on None: zeroes_inventories", {})
    ELSE select(b, pd, FALSE, i, self.zeroes_inventories.inv)

select0_unchecked(b, pd, s0, self, i) ==
    IF ~s0 THEN RetPanic("assertion failed: SELECT0_SUPPORT", {})
    ELSE IF self.zeroes_inventories = None
    THEN RetPanic("unwrap on None: zeroes_inventories", {})
    ELSE unwrap(select(b, pd, FALSE, i, self.zeroes_inventories.inv))

\* ------------------------------------------------------ DArray behaviour
BitVectors == UNION {[1..l -> {0, 1}] : l \in 0..MaxLen}

NoOp == [name |-> "", symbol |-> 0, i |-> 0]
NoDArray == [ones_inventories |-> Inventories_default, zeroes_inventories |-> None]
NoRS == [built |-> FALSE, panicked |-> FALSE, superblocks |-> <<>>,
         occs |-> <<>>, select_samples |-> <<>>, n |-> 0, writes |-> <<>>]

InitDArray ==
    /\ pc = "start"
    /\ bv \in BitVectors
    /\ pad \in (IF Len(bv) % WORD_BITS = 0 THEN {0} ELSE {0, 1})
    /\ SELECT0_SUPPORT \in BOOLEAN
    /\ da = NoDArray
    /\ op = NoOp
    /\ ret = NoRet
    /\ qv = <<>>
    /\ B_SIZE = 0
    /\ rs = NoRS

New ==
    /\ pc = "start"
    /\ pc' = "built"
    /\ da' = DArray_new(bv, SELECT0_SUPPORT)
    /\ UNCHANGED <<bv, pad, SELECT0_SUPPORT, op, ret, qv, B_SIZE, rs>>

Select1 ==
    /\ pc = "built"
    /\ \E i \in 0..(Len(ones(bv)) + 1) :
         /\ op' = [name |-> "select1", symbol |-> 1, i |-> i]
         /\ ret' = select1(bv, pad, SELECT0_SUPPORT, da, i)
    /\ pc' = "queried"
    /\ UNCHANGED <<bv, pad, SELECT0_SUPPORT, da, qv, B_SIZE, rs>>

Select0 ==
    /\ pc = "built"
    /\ \E i \in 0..(Len(zeros(bv)) + 1) :
         /\ op' = [name |-> "select0", symbol |-> 0, i |-> i]
         /\ ret' = select0(bv, pad, SELECT0_SUPPORT, da, i)
    /\ pc' = "queried"
    /\ UNCHANGED <<bv, pad, SELECT0_SUPPORT, da, qv, B_SIZE, rs>>

Select0Unchecked ==
    /\ pc = "built"
    /\ \E i \in 0..(Len(zeros(bv)) + 1) :
         /\ op' = [name |-> "select0_unchecked", symbol |-> 0, i |-> i]
         /\ ret' = select0_unchecked(bv, pad, SELECT0_SUPPORT, da, i)
    /\ pc' = "queried"
    /\ UNCHANGED <<bv, pad, SELECT0_SUPPORT, da, qv, B_SIZE, rs>>

NextDArray == New \/ Select1 \/ Select0 \/ Select0Unchecked

SpecDArray == InitDArray /\ [][NextDArray]_vars

\* --------------------------------------------------------- SuperblockPlain
Symbols == 0..3
Zero4 == [symbol \in Symbols |-> 0]
FIELD_MASK == 2^BLOCK_BITS - 1                             \* 0b111111111111
SB_SHIFT == (BLOCKS_IN_SUPERBLOCK - 1) * BLOCK_BITS        \* 84
U128_MOD == 2^(SB_SHIFT + SUPERBLOCK_BITS)                 \* 2^128

\* mutation: the superblock field is left at zero
SuperblockPlain_new_zero(sbc) == [symbol \in Symbols |-> 0]

SuperblockPlain_new(sbc) ==
    [symbol \in Symbols |-> (sbc[symbol] * 2^SB_SHIFT) % U128_MOD]

get_superblock_counter(self, symbol) == self[symbol] \div 2^SB_SHIFT

\* mutation: the counters are shifted by block_id fields instead of block_id - 1
set_block_counters_next_slot(self, block_id, counters) ==
    IF ~(block_id < BLOCKS_IN_SUPERBLOCK) THEN [ok |-> FALSE, sb |-> self]
    ELSE IF \E i \in Symbols : ~(counters[i] < 2^BLOCK_BITS)
    THEN [ok |-> FALSE, sb |-> self]
    ELSE IF block_id = 0 THEN [ok |-> TRUE, sb |-> self]
    ELSE [ok |-> TRUE,
          sb |-> [symbol \in Symbols |->
                    BitOr(self[symbol],
                          (counters[symbol] * 2^(block_id * BLOCK_BITS))
                              % U128_MOD)]]

\* [ok |-> FALSE] when one of the assertions fails
set_block_counters(self, block_id, counters) ==
    IF ~(block_id < BLOCKS_IN_SUPERBLOCK) THEN [ok |-> FALSE, sb |-> self]
    ELSE IF \E i \in Symbols : ~(counters[i] < 2^BLOCK_BITS)
    THEN [ok |-> FALSE, sb |-> self]
    ELSE IF block_id = 0 THEN [ok |-> TRUE, sb |-> self]
    ELSE [ok |-> TRUE,
          sb |-> [symbol \in Symbols |->
                    BitOr(self[symbol],
                          (counters[symbol] * 2^((block_id - 1) * BLOCK_BITS))
                              % U128_MOD)]]

\* mutation: the field of the next block is read
get_block_counter_next(self, symbol, block_id) ==
    IF block_id = 0 THEN 0
    ELSE BitAnd(self[symbol] \div 2^(block_id * BLOCK_BITS), FIELD_MASK)

get_block_counter(self, symbol, block_id) ==
    IF block_id = 0 THEN 0
    ELSE BitAnd(self[symbol] \div 2^((block_id - 1) * BLOCK_BITS), FIELD_MASK)

RECURSIVE predecessor_loop(_, _, _, _)
RECURSIVE predecessor_loop_strict(_, _, _, _)
\* mutation: the scan stops at a field above target instead of at or above
predecessor_loop_strict(cnt, target, block_id, prev_cnt) ==
    IF block_id >= BLOCKS_IN_SUPERBLOCK
    THEN <<BLOCKS_IN_SUPERBLOCK - 1, prev_cnt>>
    ELSE LET curr_cnt == BitAnd(cnt, FIELD_MASK)
         IN IF curr_cnt > target THEN <<block_id - 1, prev_cnt>>
            ELSE predecessor_loop_strict(cnt \div 2^BLOCK_BITS, target,
                                         block_id + 1, curr_cnt)

predecessor_loop(cnt, target, block_id, prev_cnt) ==
    IF block_id >= BLOCKS_IN_SUPERBLOCK
    THEN <<BLOCKS_IN_SUPERBLOCK - 1, prev_cnt>>
    ELSE LET curr_cnt == BitAnd(cnt, FIELD_MASK)
         IN IF curr_cnt >= target THEN <<block_id - 1, prev_cnt>>
            ELSE predecessor_loop(cnt \div 2^BLOCK_BITS, target,
                                  block_id + 1, curr_cnt)

block_predecessor(self, symbol, target) ==
    predecessor_loop(self[symbol], target, 1, 0)

\* ---------------------------------------------------------- RSSupportPlain
superblock_index(bs, i) == i \div (bs * BLOCKS_IN_SUPERBLOCK)
block_index(bs, i) == i \div bs

RS_start ==
    [superblock_counters |-> Zero4, block_counters |-> Zero4, occs |-> Zero4,
     select_samples |-> [symbol \in Symbols |-> <<>>],
     superblocks |-> <<>>,
     writes |-> <<>>,        \* the calls of set_block_counters, in order
     panicked |-> FALSE]

\* a call of set_block_counters on the last superblock
write_block(st, block_id) ==
    LET w == set_block_counters(Last(st.superblocks), block_id, st.block_counters)
    IN [st EXCEPT
          !.superblocks[Len(st.superblocks)] = w.sb,
          !.panicked = ~w.ok,
          !.writes = Append(@, [sb |-> Len(st.superblocks) - 1,
                                block_id |-> block_id,
                                cnts |-> st.block_counters,
                                before |-> Last(st.superblocks)])]

\* mutation: a superblock record is started at every block boundary
RS_step_every_block(q, bs, i, st) ==
    LET st1 == IF i % bs = 0
               THEN [st EXCEPT
                       !.superblocks =
                           Append(@, SuperblockPlain_new(st.superblock_counters)),
                       !.block_counters = Zero4]
               ELSE st
        st2 == IF i % bs = 0
               THEN write_block(st1, (i \div bs) % BLOCKS_IN_SUPERBLOCK)
               ELSE st1
    IN IF st2.panicked \/ ~(i < Len(q)) THEN st2
       ELSE LET symbol == q[i + 1]
            IN [st2 EXCEPT
                  !.select_samples[symbol] =
                      IF st2.occs[symbol] % SELECT_NUM_SAMPLES = 0
                      THEN Append(@, superblock_index(bs, i)) ELSE @,
                  !.superblock_counters[symbol] = @ + 1,
                  !.block_counters[symbol] = @ + 1,
                  !.occs[symbol] = @ + 1]

\* the body of the construction loop at position i
RS_step(q, bs, i, st) ==
    LET superblock_size == BLOCKS_IN_SUPERBLOCK * bs
        st1 == IF i % superblock_size = 0
               THEN [st EXCEPT
                       !.superblocks =
                           Append(@, SuperblockPlain_new(st.superblock_counters)),
                       !.block_counters = Zero4]
               ELSE st
        st2 == IF i % bs = 0
               THEN write_block(st1, (i \div bs) % BLOCKS_IN_SUPERBLOCK)
               ELSE st1
    IN IF st2.panicked \/ ~(i < Len(q)) THEN st2
       ELSE LET symbol == q[i + 1]
            IN [st2 EXCEPT
                  !.select_samples[symbol] =
                      IF st2.occs[symbol] % SELECT_NUM_SAMPLES = 0
                      THEN Append(@, superblock_index(bs, i)) ELSE @,
                  !.superblock_counters[symbol] = @ + 1,
                  !.block_counters[symbol] = @ + 1,
                  !.occs[symbol] = @ + 1]

RECURSIVE RS_loop(_, _, _, _)
RS_loop(q, bs, i, st) ==
    IF i > Len(q) \/ st.panicked THEN st
    ELSE RS_loop(q, bs, i + 1, RS_step(q, bs, i, st))

\* mutation: the sentinel goes into the slot of the block that contains
\* position qv.len(), which the loop has written
RS_sentinel_block_same_slot(q, bs, st) ==
    LET next_block_id == (Len(q) \div bs) % BLOCKS_IN_SUPERBLOCK
    IN IF next_block_id < BLOCKS_IN_SUPERBLOCK
       THEN write_block(st, next_block_id) ELSE st

\* the sentinel block written after the loop
RS_sentinel_block(q, bs, st) ==
    LET next_block_id == ((Len(q) \div bs) % BLOCKS_IN_SUPERBLOCK) + 1
    IN IF next_block_id < BLOCKS_IN_SUPERBLOCK
       THEN write_block(st, next_block_id) ELSE st

\* mutation: no leading 0 for a symbol without samples
RS_sentinel_samples_no_leading(st) ==
    [st EXCEPT !.select_samples =
        [symbol \in Symbols |->
            Append(st.select_samples[symbol], Len(st.superblocks) - 1)]]

\* mutation: the sentinel entry is not appended
RS_sentinel_samples_no_sentinel(st) ==
    [st EXCEPT !.select_samples =
        [symbol \in Symbols |->
            IF st.select_samples[symbol] = <<>> THEN <<0>>
            ELSE st.select_samples[symbol]]]

\* the sentinels of select_samples
RS_sentinel_samples(st) ==
    [st EXCEPT !.select_samples =
        [symbol \in Symbols |->
            Append(IF st.select_samples[symbol] = <<>> THEN <<0>>
                   ELSE st.select_samples[symbol],
                   Len(st.superblocks) - 1)]]

RS_panic == [built |-> TRUE, panicked |-> TRUE, superblocks |-> <<>>,
             occs |-> Zero4, select_samples |-> [symbol \in Symbols |-> <<>>],
             n |-> 0, writes |-> <<>>]

RS_new(q, bs) ==
    IF ~(Len(q) < 2^MAX_LEN_BITS) THEN RS_panic
    ELSE
    LET st == RS_loop(q, bs, 0, RS_start) IN
    IF st.panicked THEN [RS_panic EXCEPT !.writes = st.writes]
    ELSE
    LET s1 == RS_sentinel_block(q, bs, st) IN
    IF s1.panicked THEN [RS_panic EXCEPT !.writes = s1.writes]
    ELSE
    LET s2 == RS_sentinel_samples(s1)
    IN [built |-> TRUE, panicked |-> FALSE, superblocks |-> s2.superblocks,
        occs |-> s2.occs, select_samples |-> s2.select_samples,
        n |-> Len(q), writes |-> s2.writes]

RankRet(v) == [kind |-> "Some", val |-> v, why |-> ""]
RankPanic(why) == [kind |-> "Panic", val |-> 0, why |-> why]

rank_block(self, bs, SYMBOL, i) ==
    LET sbi == superblock_index(bs, i)
        bi == block_index(bs, i)
    IN IF sbi >= Len(self.superblocks) THEN RankPanic("index out of bounds")
       ELSE RankRet(get_superblock_counter(At(self.superblocks, sbi), SYMBOL)
                    + get_block_counter(At(self.superblocks, sbi), SYMBOL,
                                        bi % BLOCKS_IN_SUPERBLOCK))

n_occs(self, symbol) == self.occs[symbol]

\* floor of the square root
isqrt(x) == CHOOSE r \in 0..x : r * r <= x /\ (r + 1) * (r + 1) > x

\* one of the two search loops of select_block: advance first_sblock_id by
\* step while it is below last_sblock_id and its superblock counter is < i
RECURSIVE search_loop(_, _, _, _, _, _, _)
RECURSIVE search_loop_strict(_, _, _, _, _, _, _)
\* mutation: the loops stop at a counter above i instead of at or above
search_loop_strict(self, symbol, i, first_sblock_id, last_sblock_id, step, iters) ==
    IF ~(first_sblock_id < last_sblock_id)
    THEN [oob |-> FALSE, first |-> first_sblock_id, iters |-> iters]
    ELSE IF first_sblock_id >= Len(self.superblocks)
    THEN [oob |-> TRUE, first |-> first_sblock_id, iters |-> iters]
    ELSE IF get_superblock_counter(At(self.superblocks, first_sblock_id), symbol) > i
    THEN [oob |-> FALSE, first |-> first_sblock_id, iters |-> iters]
    ELSE search_loop_strict(self, symbol, i, first_sblock_id + step,
                            last_sblock_id, step, iters + 1)

search_loop(self, symbol, i, first_sblock_id, last_sblock_id, step, iters) ==
    IF ~(first_sblock_id < last_sblock_id)
    THEN [oob |-> FALSE, first |-> first_sblock_id, iters |-> iters]
    ELSE IF first_sblock_id >= Len(self.superblocks)
    THEN [oob |-> TRUE, first |-> first_sblock_id, iters |-> iters]
    ELSE IF get_superblock_counter(At(self.superblocks, first_sblock_id), symbol) >= i
    THEN [oob |-> FALSE, first |-> first_sblock_id, iters |-> iters]
    ELSE search_loop(self, symbol, i, first_sblock_id + step, last_sblock_id,
                     step, iters + 1)

SelPanic(why) ==
    [kind |-> "Panic", position |-> 0, rank |-> 0, why |-> why,
     lo |-> 0, hi |-> 0, sblock |-> 0, gallop |-> 0, linear |-> 0, target |-> 0]

select_block(self, bs, symbol, i) ==
    IF i < 1 THEN SelPanic("attempt to subtract with overflow")
    ELSE
    LET sampled_i == (i - 1) \div SELECT_NUM_SAMPLES
        samples == self.select_samples[symbol]
    IN
    IF sampled_i + 1 >= Len(samples) THEN SelPanic("index out of bounds")
    ELSE
    LET first0 == At(samples, sampled_i)
        last_sblock_id == 1 + At(samples, sampled_i + 1)
    IN
    IF last_sblock_id < first0 THEN SelPanic("attempt to subtract with overflow")
    ELSE
    LET step == isqrt(last_sblock_id - first0) + 1
        g == search_loop(self, symbol, i, first0, last_sblock_id, step, 0)
    IN
    IF g.oob THEN SelPanic("index out of bounds")
    ELSE IF g.first < step THEN SelPanic("attempt to subtract with overflow")
    ELSE
    LET l == search_loop(self, symbol, i, g.first - step, last_sblock_id, 1, 0) IN
    IF l.oob THEN SelPanic("index out of bounds")
    ELSE IF l.first < 1 THEN SelPanic("attempt to subtract with overflow")
    ELSE
    LET first_sblock_id == l.first - 1 IN
    IF first_sblock_id >= Len(self.superblocks) THEN SelPanic("index out of bounds")
    ELSE
    LET sb == At(self.superblocks, first_sblock_id)
        rank == get_superblock_counter(sb, symbol)
    IN
    IF i < rank THEN SelPanic("attempt to subtract with overflow")
    ELSE
    LET p == block_predecessor(sb, symbol, i - rank)
    IN [kind |-> "Some",
        position |-> first_sblock_id * bs * BLOCKS_IN_SUPERBLOCK + p[1] * bs,
        rank |-> rank + p[2], why |-> "",
        lo |-> first0, hi |-> last_sblock_id, sblock |-> first_sblock_id,
        gallop |-> g.iters, linear |-> l.iters, target |-> i - rank]

\* --------------------------------------------------- RSSupportPlain behaviour
QSymbols == {0, 3}
QVectors ==
    UNION {[1..l -> QSymbols] : l \in 0..MaxQLen}
    \cup UNION {[1..l -> Symbols] : l \in 0..MaxShortQLen}

InitRS ==
    /\ pc = "start"
    /\ qv \in QVectors
    /\ B_SIZE \in {1, 2}
    /\ rs = NoRS
    /\ op = NoOp
    /\ ret = NoRet
    /\ bv = <<>>
    /\ pad = 0
    /\ SELECT0_SUPPORT = FALSE
    /\ da = NoDArray

RSNew ==
    /\ pc = "start"
    /\ pc' = "built"
    /\ rs' = RS_new(qv, B_SIZE)
    /\ UNCHANGED <<bv, pad, SELECT0_SUPPORT, da, op, ret, qv, B_SIZE>>

RankBlock ==
    /\ pc = "built" /\ ~rs.panicked
    /\ \E symbol \in Symbols, i \in 0..Len(qv) :
         /\ op' = [name |-> "rank_block", symbol |-> symbol, i |-> i]
         /\ ret' = rank_block(rs, B_SIZE, symbol, i)
    /\ pc' = "queried"
    /\ UNCHANGED <<bv, pad, SELECT0_SUPPORT, da, qv, B_SIZE, rs>>

SelectBlock ==
    /\ pc = "built" /\ ~rs.panicked
    /\ \E symbol \in Symbols, i \in 1..Len(qv) :
         /\ i <= n_occs(rs, symbol)
         /\ op' = [name |-> "select_block", symbol |-> symbol, i |-> i]
         /\ ret' = select_block(rs, B_SIZE, symbol, i)
    /\ pc' = "queried"
    /\ UNCHANGED <<bv, pad, SELECT0_SUPPORT, da, qv, B_SIZE, rs>>

\* block_predecessor on the record of superblock op.i; op.target is the target
BlockPredecessor ==
    /\ pc = "built" /\ ~rs.panicked
    /\ \E symbol \in Symbols, k \in 0..Len(qv),
          target \in 1..(B_SIZE * BLOCKS_IN_SUPERBLOCK + 1) :
         /\ k < Len(rs.superblocks)
         /\ op' = [name |-> "block_predecessor", symbol |-> symbol, i |-> k,
                   target |-> target]
         /\ ret' = block_predecessor(At(rs.superblocks, k), symbol, target)
    /\ pc' = "queried"
    /\ UNCHANGED <<bv, pad, SELECT0_SUPPORT, da, qv, B_SIZE, rs>>

NextRS == RSNew \/ RankBlock \/ SelectBlock \/ BlockPredecessor

SpecRS == InitRS /\ [][NextRS]_vars

\* =========================================================== properties
\* ground truth, computed from the input vectors alone
Ceil(a, b) == (a + b - 1) \div b
Min(a, b) == IF a < b THEN a ELSE b
Inventory(BIT) == IF BIT = 1 THEN da.ones_inventories ELSE da.zeroes_inventories.inv
HasInventory(BIT) == BIT = 1 \/ SELECT0_SUPPORT
BlockFirst(pos, b) == At(pos, b * BLOCK_SIZE)
BlockSize(pos, b) == Min(BLOCK_SIZE, Len(pos) - b * BLOCK_SIZE)
BlockLast(pos, b) == At(pos, b * BLOCK_SIZE + BlockSize(pos, b) - 1)
IsDense(pos, b) == BlockLast(pos, b) - BlockFirst(pos, b) < MAX_IN_BLOCK_DISTACE
CheckedSelect == pc = "queried" /\ op.name \in {"select1", "select0"} /\ HasInventory(op.symbol)

\* C1: a checked select1/select0 with i below the number of P-bits returns
\* the position of the (i+1)-th P-bit of bv.
C1_SelectIsNaive ==
    (CheckedSelect /\ op.i < Len(positions(bv, op.symbol)))
        => (ret.kind = "Some" /\ ret.val = At(positions(bv, op.symbol), op.i))

\* C4: a checked select with i at or beyond the number of P-bits returns
\* None and reads none of the inventory vectors.
C4_OutOfRangeIsNone ==
    (CheckedSelect /\ op.i >= Len(positions(bv, op.symbol)))
        => (ret.kind = "None" /\ ret.reads = {})

C4_Witness ==
    /\ CheckedSelect /\ op.name = "select0"
    /\ Len(zeros(bv)) = BLOCK_SIZE /\ op.i = BLOCK_SIZE
    /\ ret.kind = "None"

\* C5: without zeros support select0 and select0_unchecked panic on their
\* assertion; with zeros support the zeros inventory exists and neither call
\* fails on the assertion or on the missing inventory.
C5_Select0NeedsSupport ==
    /\ (pc # "start" /\ SELECT0_SUPPORT) => da.zeroes_inventories # None
    /\ (pc = "queried" /\ op.name \in {"select0", "select0_unchecked"}) =>
          IF ~SELECT0_SUPPORT
          THEN ret.kind = "Panic" /\ ret.why = "assertion failed: SELECT0_SUPPORT"
          ELSE /\ ret.why # "assertion failed: SELECT0_SUPPORT"
               /\ ret.why # "unwrap on None: zeroes_inventories"

C5_Witness ==
    /\ pc = "queried" /\ op.name = "select0_unchecked" /\ ~SELECT0_SUPPORT
    /\ Len(zeros(bv)) > 0 /\ op.i = 0 /\ ret.kind = "Panic"

\* C7: the subblock inventory has one entry per subblock of SUBBLOCK_SIZE
\* P-bits; the entry of the subblock of the (i+1)-th P-bit is at index
\* i / SUBBLOCK_SIZE and is the offset of the subblock's first P-bit from the
\* block's first P-bit (dense block) or the sentinel (sparse block).
SubblocksOf(inv, pos) ==
    /\ Len(inv.subblock_inventory) = Ceil(inv.n_sets, SUBBLOCK_SIZE)
    /\ \A i \in 0..(Len(pos) - 1) :
         LET b == i \div BLOCK_SIZE
             j == i \div SUBBLOCK_SIZE
         IN /\ j < Len(inv.subblock_inventory)
            /\ At(inv.subblock_inventory, j) =
                  IF IsDense(pos, b)
                  THEN At(pos, j * SUBBLOCK_SIZE) - BlockFirst(pos, b)
                  ELSE U16_MAX

C7_SubblockInventory ==
    pc # "start" =>
        \A BIT \in {0, 1} :
            HasInventory(BIT) => SubblocksOf(Inventory(BIT), positions(bv, BIT))

\* C8: the block inventory has one entry per block; a block is recorded by
\* its first position exactly when its span is below MAX_IN_BLOCK_DISTACE,
\* otherwise by -(k+1) where its positions are overflow_positions[k ..];
\* the runs of the sparse blocks follow each other without gap or overlap,
\* and select inside a sparse block answers from that run.
SparseBefore(pos, b) ==
    LET S == {c \in 0..(b - 1) : ~IsDense(pos, c)}
        RECURSIVE Sum(_)
        Sum(T) == IF T = {} THEN 0
                  ELSE LET c == CHOOSE x \in T : TRUE
                       IN BlockSize(pos, c) + Sum(T \ {c})
    IN Sum(S)

BlocksOf(inv, pos) ==
    LET B == inv.block_inventory
        O == inv.overflow_positions
        nb == Ceil(inv.n_sets, BLOCK_SIZE)
    IN /\ inv.n_sets = Len(pos)
       /\ Len(B) = nb
       /\ Len(O) = SparseBefore(pos, nb)
       /\ \A b \in 0..(nb - 1) :
            /\ (At(B, b) = BlockFirst(pos, b)) <=> IsDense(pos, b)
            /\ ~IsDense(pos, b) =>
                 /\ At(B, b) = -(SparseBefore(pos, b) + 1)
                 /\ \A j \in 0..(BlockSize(pos, b) - 1) :
                      At(O, (-At(B, b) - 1) + j) = At(pos, b * BLOCK_SIZE + j)

C8_BlockInventory ==
    /\ pc # "start" =>
         \A BIT \in {0, 1} :
            HasInventory(BIT) => BlocksOf(Inventory(BIT), positions(bv, BIT))
    /\ (/\ CheckedSelect
        /\ op.i < Len(positions(bv, op.symbol))
        /\ ~IsDense(positions(bv, op.symbol), op.i \div BLOCK_SIZE)) =>
          LET inv == Inventory(op.symbol)
              k == -At(inv.block_inventory, op.i \div BLOCK_SIZE) - 1
          IN /\ ret.kind = "Some"
             /\ ret.val = At(inv.overflow_positions, k + (op.i % BLOCK_SIZE))

\* a select answered from the run of a second sparse block
C8_Witness ==
    /\ CheckedSelect
    /\ op.i < Len(positions(bv, op.symbol))
    /\ op.i \div BLOCK_SIZE = 1
    /\ ~IsDense(positions(bv, op.symbol), 0)
    /\ ~IsDense(positions(bv, op.symbol), 1)
    /\ op.i % BLOCK_SIZE = 1
    /\ ret.kind = "Some"

\* ground truth on the quaternary vector
qpositions(q, symbol) ==
    SelectSeq([k \in 1..Len(q) |-> k - 1], LAMBDA p : q[p + 1] = symbol)
\* occurrences of symbol in q[lo, hi)
qcount(q, symbol, lo, hi) ==
    Cardinality({p \in lo..(hi - 1) : p < Len(q) /\ q[p + 1] = symbol})
SUPERBLOCK_SIZE == B_SIZE * BLOCKS_IN_SUPERBLOCK
Ranked == pc = "queried" /\ op.name = "rank_block"
Selected == pc = "queried" /\ op.name = "select_block"

\* C2: select_block(s, i) = (pos, rank) with 1 <= i <= n_occs(s): pos is a
\* block start below qv.len(), rank_block<s>(pos) = rank, and the i-th
\* occurrence of s lies in the block starting at pos.
C2_SelectBlockDuality ==
    Selected =>
        /\ ret.kind = "Some"
        /\ ret.position % B_SIZE = 0
        /\ ret.position < Len(qv)
        /\ rank_block(rs, B_SIZE, op.symbol, ret.position) = RankRet(ret.rank)
        /\ ret.rank <= op.i - 1
        /\ op.i - 1 < ret.rank + qcount(qv, op.symbol, ret.position,
                                        Min(ret.position + B_SIZE, Len(qv)))

\* a select that lands in a later block of a later superblock
C2_Witness ==
    /\ Selected /\ ret.kind = "Some"
    /\ ret.sblock >= 1
    /\ ret.position % SUPERBLOCK_SIZE # 0
    /\ ret.rank > 0
    /\ B_SIZE = 2

\* C3: rank_block<s>(i), 0 <= i <= n, is the number of s before the start of
\* the block that contains position i.
C3_RankBlockCounts ==
    Ranked =>
        ret = RankRet(qcount(qv, op.symbol, 0, (op.i \div B_SIZE) * B_SIZE))

\* rank at i = n with n a positive multiple of the superblock size
C3_Witness ==
    /\ Ranked /\ Len(qv) > 0 /\ op.i = Len(qv)
    /\ Len(qv) % SUPERBLOCK_SIZE = 0
    /\ ret.kind = "Some" /\ ret.val > 0

\* C6: rank_block<s> is non-decreasing over 0..n and never above n_occs(s).
C6_RankBlockMonotone ==
    Ranked =>
        /\ ret.kind = "Some"
        /\ ret.val <= n_occs(rs, op.symbol)
        /\ n_occs(rs, op.symbol) = qcount(qv, op.symbol, 0, Len(qv))
        /\ \A i \in 0..op.i :
             LET r == rank_block(rs, B_SIZE, op.symbol, i)
             IN r.kind = "Some" /\ r.val <= ret.val

\* a rank in a later superblock that is above the rank at an earlier block
C6_Witness ==
    /\ Ranked /\ ret.kind = "Some"
    /\ op.i >= SUPERBLOCK_SIZE
    /\ ret.val = n_occs(rs, op.symbol)
    /\ \E i \in 0..op.i :
         /\ rank_block(rs, B_SIZE, op.symbol, i).val > 0
         /\ rank_block(rs, B_SIZE, op.symbol, i).val < ret.val

\* C9: block_predecessor(s, target) on a record built by new returns the
\* largest block id whose counter is below target, and that counter.
C9_PredecessorIsLargest ==
    (pc = "queried" /\ op.name = "block_predecessor") =>
        LET sb == At(rs.superblocks, op.i)
            below == {b \in 0..(BLOCKS_IN_SUPERBLOCK - 1) :
                         get_block_counter(sb, op.symbol, b) < op.target}
            largest == CHOOSE b \in below : \A c \in below : c <= b
        IN ret = <<largest, get_block_counter(sb, op.symbol, largest)>>

\* C10: the superblock of the i-th occurrence of s lies in the interval
\* [lo, hi) taken from the samples, and the two search loops of select_block
\* end on it.
C10_SearchFindsSuperblock ==
    Selected =>
        LET sampled_i == (op.i - 1) \div SELECT_NUM_SAMPLES
            samples == rs.select_samples[op.symbol]
            lo == At(samples, sampled_i)
            hi == At(samples, sampled_i + 1) + 1
            t == At(qpositions(qv, op.symbol), op.i - 1) \div SUPERBLOCK_SIZE
        IN /\ sampled_i + 1 < Len(samples)
           /\ lo <= t /\ t < hi
           /\ ret.kind = "Some"
           /\ ret.lo = lo /\ ret.hi = hi
           /\ ret.sblock = t

\* a search that gallops more than once and then walks linearly
C10_Witness ==
    /\ Selected /\ ret.kind = "Some"
    /\ ret.gallop >= 2 /\ ret.linear >= 1
    /\ ret.sblock >= 2 /\ ret.sblock > ret.lo

Built == pc = "built" /\ rs.built

\* C11: construction writes every block slot 1..BLOCKS_IN_SUPERBLOCK-1 of a
\* superblock record at most once and finds all four fields of the slot zero;
\* the sentinel written after the loop goes to a slot the loop left alone,
\* so every slot holds exactly the counters of its one write.
C11_SlotsWrittenOnce ==
    Built =>
        /\ ~rs.panicked
        /\ \A k \in 1..Len(rs.writes) :
             LET w == rs.writes[k]
             IN /\ w.sb < Len(rs.superblocks)
                /\ w.block_id >= 1 =>
                     /\ \A symbol \in Symbols :
                          /\ get_block_counter(w.before, symbol, w.block_id) = 0
                          /\ get_block_counter(At(rs.superblocks, w.sb), symbol,
                                               w.block_id) = w.cnts[symbol]
                     /\ \A j \in 1..(k - 1) :
                          ~(/\ rs.writes[j].sb = w.sb
                            /\ rs.writes[j].block_id = w.block_id)
        /\ LET next_block_id == ((Len(qv) \div B_SIZE) % BLOCKS_IN_SUPERBLOCK) + 1
           IN next_block_id < BLOCKS_IN_SUPERBLOCK =>
                /\ Last(rs.writes).block_id = next_block_id
                /\ Last(rs.writes).sb = Len(rs.superblocks) - 1

\* a sentinel with non-zero counters written into a second superblock after
\* the loop wrote a non-zero slot of that superblock
C11_Witness ==
    /\ Built /\ ~rs.panicked
    /\ Len(rs.superblocks) >= 2
    /\ Len(rs.writes) >= 2
    /\ LET w == Last(rs.writes)
           v == rs.writes[Len(rs.writes) - 1]
       IN /\ w.block_id >= 2 /\ w.sb = 1 /\ v.sb = 1
          /\ v.block_id = w.block_id - 1
          /\ \E symbol \in Symbols : v.cnts[symbol] > 0 /\ w.cnts[symbol] > v.cnts[symbol]

\* C12: select_samples[s] holds one entry per SELECT_NUM_SAMPLES occurrences
\* of s, entry j being the superblock of occurrence j * SELECT_NUM_SAMPLES + 1,
\* then one sentinel |SB| - 1; a symbol that never occurs has [0, |SB| - 1];
\* every array has at least 2 entries and is non-decreasing.
C12_SelectSamples ==
    (Built /\ ~rs.panicked) =>
        \A symbol \in Symbols :
            LET SS == rs.select_samples[symbol]
                pos == qpositions(qv, symbol)
                k == Ceil(Len(pos), SELECT_NUM_SAMPLES)
            IN /\ rs.occs[symbol] = Len(pos)
               /\ IF Len(pos) = 0
                  THEN SS = <<0, Len(rs.superblocks) - 1>>
                  ELSE /\ Len(SS) = k + 1
                       /\ \A j \in 0..(k - 1) :
                            At(SS, j) =
                               At(pos, j * SELECT_NUM_SAMPLES) \div SUPERBLOCK_SIZE
                       /\ At(SS, k) = Len(rs.superblocks) - 1
               /\ Len(SS) >= 2
               /\ \A j \in 1..(Len(SS) - 1) : SS[j] <= SS[j + 1]

\* one symbol sampled in three different superblocks, another that never occurs
C12_Witness ==
    /\ Built /\ ~rs.panicked
    /\ \E symbol \in Symbols :
         LET SS == rs.select_samples[symbol]
         IN Len(SS) >= 4 /\ SS[1] < SS[2] /\ SS[2] < SS[3]
    /\ \E symbol \in Symbols :
         rs.occs[symbol] = 0 /\ rs.select_samples[symbol] = <<0, Len(rs.superblocks) - 1>>

\* C13 (as stated): the superblock array has ceil(n / SUPERBLOCK_SIZE) + 1
\* records for every n.
C13_SuperblockCountCeil ==
    (Built /\ ~rs.panicked) =>
        Len(rs.superblocks) = Ceil(Len(qv), SUPERBLOCK_SIZE) + 1

\* C13 (amended): the superblock array has floor(n / SUPERBLOCK_SIZE) + 1
\* records for every n, one per multiple of SUPERBLOCK_SIZE in 0..n.
C13_SuperblockCountFloor ==
    (Built /\ ~rs.panicked) =>
        /\ rs.n = Len(qv)
        /\ Len(rs.superblocks) = (Len(qv) \div SUPERBLOCK_SIZE) + 1

\* a vector that ends inside its second superblock: two records
C13_Witness ==
    /\ Built /\ ~rs.panicked
    /\ Len(qv) > SUPERBLOCK_SIZE /\ Len(qv) % SUPERBLOCK_SIZE # 0
    /\ Len(rs.superblocks) = 2

\* C14: every call of set_block_counters made by construction passes
\* counters below 2^BLOCK_BITS (no assertion fires); every superblock field
\* is the count before the superblock and at most n, every block field is
\* below BLOCKS_IN_SUPERBLOCK * BLOCK_SIZE, and each counter word is the sum
\* of its fields at their own offsets (no field spills into its neighbour).
RECURSIVE WrittenFields(_, _, _)
WrittenFields(writes, j, symbol) ==
    IF writes = <<>> THEN 0
    ELSE LET w == Head(writes)
         IN (IF w.sb = j /\ w.block_id >= 1
             THEN w.cnts[symbol] * 2^((w.block_id - 1) * BLOCK_BITS) ELSE 0)
            + WrittenFields(Tail(writes), j, symbol)

C14_CountersFit ==
    Built =>
        /\ ~rs.panicked
        /\ \A k \in 1..Len(rs.writes) :
             /\ rs.writes[k].block_id < BLOCKS_IN_SUPERBLOCK
             /\ \A symbol \in Symbols : rs.writes[k].cnts[symbol] < 2^BLOCK_BITS
        /\ \A j \in 0..(Len(rs.superblocks) - 1) : \A symbol \in Symbols :
             LET sb == At(rs.superblocks, j)
                 before == qcount(qv, symbol, 0, j * SUPERBLOCK_SIZE)
             IN /\ get_superblock_counter(sb, symbol) = before
                /\ get_superblock_counter(sb, symbol) <= rs.n
                /\ \A b \in 1..(BLOCKS_IN_SUPERBLOCK - 1) :
                     get_block_counter(sb, symbol, b) < BLOCKS_IN_SUPERBLOCK * B_SIZE
                /\ sb[symbol] = before * 2^SB_SHIFT
                                + WrittenFields(rs.writes, j, symbol)

\* a second superblock whose last block field holds the largest count a
\* block field can take with the larger block size
C14_Witness ==
    /\ Built /\ ~rs.panicked /\ B_SIZE = 2
    /\ Len(rs.superblocks) >= 2
    /\ \E symbol \in Symbols :
         /\ get_superblock_counter(At(rs.superblocks, 1), symbol) > 0
         /\ get_block_counter(At(rs.superblocks, 0), symbol,
                              BLOCKS_IN_SUPERBLOCK - 1)
               = (BLOCKS_IN_SUPERBLOCK - 1) * B_SIZE

\* C15: a checked select with i below the number of P-bits never panics,
\* calls get_word only with word indices below ceil(len / 64), starts a
\* dense search at block_inventory[block] + subblock_inventory[subblock]
\* below len, and returns a position below len that holds a P-bit (so a
\* bit of the last word at or beyond len is never returned).
C15_SelectStaysInside ==
    (CheckedSelect /\ op.i < Len(positions(bv, op.symbol))) =>
        LET inv == Inventory(op.symbol)
            block == op.i \div BLOCK_SIZE
            subblock == op.i \div SUBBLOCK_SIZE
        IN /\ ret.kind = "Some"
           /\ \A r \in ret.reads : r[1] = "get_word" => r[2] < n_words(bv)
           /\ ret.val < Len(bv)
           /\ bit_at(bv, pad, ret.val) = op.symbol
           /\ (block < Len(inv.block_inventory)
               /\ At(inv.block_inventory, block) >= 0) =>
                   /\ subblock < Len(inv.subblock_inventory)
                   /\ At(inv.block_inventory, block)
                        + At(inv.subblock_inventory, subblock) < Len(bv)

\* C16: select_block(s, i) with 1 <= i <= n_occs(s) on a constructed index
\* runs to completion: the sample after the one of i exists, the superblock
\* counter at the first sampled superblock is below i, the galloping loop
\* and the linear loop each advance at least once, i - rank is at least 1,
\* and every superblock index used is below the number of superblocks.
C16_SelectBlockIsSafe ==
    Selected =>
        LET sampled_i == (op.i - 1) \div SELECT_NUM_SAMPLES
            samples == rs.select_samples[op.symbol]
        IN /\ sampled_i + 1 < Len(samples)
           /\ At(samples, sampled_i) < Len(rs.superblocks)
           /\ At(samples, sampled_i + 1) < Len(rs.superblocks)
           /\ get_superblock_counter(
                  At(rs.superblocks, At(samples, sampled_i)), op.symbol) < op.i
           /\ ret.why = ""
           /\ ret.lo < ret.hi /\ ret.hi <= Len(rs.superblocks)
           /\ ret.gallop >= 1
           /\ ret.linear >= 1
           /\ ret.target >= 1
           /\ ret.sblock < Len(rs.superblocks)

\* a select of the last occurrence of a symbol whose samples end with the
\* sentinel, in an index of three superblocks, for the first sampled
\* superblock
C16_Witness ==
    /\ Selected /\ ret.why = ""
    /\ op.i = n_occs(rs, op.symbol)
    /\ (op.i - 1) \div SELECT_NUM_SAMPLES + 2 = Len(rs.select_samples[op.symbol])
    /\ Len(rs.superblocks) >= 3
    /\ ret.sblock = ret.lo
    /\ ret.gallop = 1 /\ ret.linear = 1 /\ ret.target = 1

====
